---------------------------- MODULE Spec2Model ----------------------------
(***************************************************************************)
(* A model of sweet::lexer::LexerGenerator (LexerGenerator.cpp): the       *)
(* construction of the lexer's state machines from the positions of the    *)
(* parsed regular expressions, the selection of the symbol of every state, *)
(* the numbering of the states and the distinct character ranges kept in   *)
(* ranges_.                                                                *)
(***************************************************************************)
EXTENDS Integers, Sequences, FiniteSets, TLC

(***************************************************************************)
(* Bounds of the model.                                                    *)
(***************************************************************************)
\* The characters of the model are 0 .. MaxChar.
MaxChar == 3
\* The number of insert() calls made on one range set in SpecRanges.
MaxInserts == 3
\* The number of tokens given to the constructor.
MaxTokens == 2
\* The lines of the tokens are 1 .. MaxLine.
MaxLine == 2
\* The strings run through an automaton have at most MaxLen characters.
MaxLen == 3
\* The number of add_lexer_action calls made in SpecActions.
MaxCalls == 4
\* The number of tokens that match the one string of SpecSymbol.
MaxEnds == 3

NULL == 0

(***************************************************************************)
(* ranges_: a vector of pair<int, bool>, here a sequence of records        *)
(* [first, second].                                                        *)
(***************************************************************************)
make_pair(c, in) == [first |-> c, second |-> in]

\* vector::insert( i, value ): value is placed before the element at i.
VectorInsert(v, i, value) ==
    SubSeq(v, 1, i - 1) \o <<value>> \o SubSeq(v, i, Len(v))

\* LexerGenerator::clear().
clear == <<>>

\* The first loop as it would be if it skipped a marker at begin too.
RECURSIVE SkipBelowInclusive(_, _, _, _)
SkipBelowInclusive(v, i, begin, in) ==
    IF i <= Len(v) /\ v[i].first <= begin
        THEN SkipBelowInclusive(v, i + 1, begin, v[i].second)
        ELSE <<i, in>>

\* The first loop of insert(): skip the markers below begin, remembering
\* the second of the last one skipped.  Yields <<i, in>>.
RECURSIVE SkipBelow(_, _, _, _)
SkipBelow(v, i, begin, in) ==
    IF i <= Len(v) /\ v[i].first < begin
        THEN SkipBelow(v, i + 1, begin, v[i].second)
        ELSE <<i, in>>

\* The second loop as it would be if it left the markers as they are.
RECURSIVE MarkBelowKeeping(_, _, _, _)
MarkBelowKeeping(v, i, end, in) ==
    IF i <= Len(v) /\ v[i].first < end
        THEN MarkBelowKeeping(v, i + 1, end, v[i].second)
        ELSE <<v, i, in>>

\* The second loop of insert(): every marker below end is switched to 'in',
\* remembering what the last one was before.  Yields <<v, i, in>>.
RECURSIVE MarkBelow(_, _, _, _)
MarkBelow(v, i, end, in) ==
    IF i <= Len(v) /\ v[i].first < end
        THEN MarkBelow([v EXCEPT ![i].second = TRUE], i + 1, end, v[i].second)
        ELSE <<v, i, in>>

\* insert() as it would be if the marker at end were always 'out'.
insertClosingOut(v, begin, end) ==
    LET skipped == SkipBelow(v, 1, begin, FALSE)
        i1 == skipped[1]
        opens == i1 > Len(v) \/ v[i1].first # begin
        v2 == IF opens THEN VectorInsert(v, i1, make_pair(begin, TRUE)) ELSE v
        i2 == IF opens THEN i1 + 1 ELSE i1
        marked == MarkBelow(v2, i2, end, skipped[2])
        v3 == marked[1]
        i3 == marked[2]
    IN  IF i3 > Len(v3) \/ v3[i3].first # end
            THEN VectorInsert(v3, i3, make_pair(end, FALSE))
            ELSE v3

\* insert() as it would be if no marker were put at a begin that lies
\* inside a range inserted before.
insertMerging(v, begin, end) ==
    LET skipped == SkipBelow(v, 1, begin, FALSE)
        i1 == skipped[1]
        in1 == skipped[2]
        opens == (i1 > Len(v) \/ v[i1].first # begin) /\ ~in1
        v2 == IF opens THEN VectorInsert(v, i1, make_pair(begin, TRUE)) ELSE v
        i2 == IF opens THEN i1 + 1 ELSE i1
        marked == MarkBelow(v2, i2, end, in1)
        v3 == marked[1]
        i3 == marked[2]
        in3 == marked[3]
    IN  IF i3 > Len(v3) \/ v3[i3].first # end
            THEN VectorInsert(v3, i3, make_pair(end, in3))
            ELSE v3

\* LexerGenerator::insert( begin, end ) applied to the vector v.
insert(v, begin, end) ==
    LET skipped == SkipBelow(v, 1, begin, FALSE)
        i1 == skipped[1]
        in1 == skipped[2]
        opens == i1 > Len(v) \/ v[i1].first # begin
        v2 == IF opens THEN VectorInsert(v, i1, make_pair(begin, TRUE)) ELSE v
        i2 == IF opens THEN i1 + 1 ELSE i1
        marked == MarkBelow(v2, i2, end, in1)
        v3 == marked[1]
        i3 == marked[2]
        in3 == marked[3]
    IN  IF i3 > Len(v3) \/ v3[i3].first # end
            THEN VectorInsert(v3, i3, make_pair(end, in3))
            ELSE v3

\* The walk over ranges_ made by generate_states: the ranges [begin, end)
\* it makes a goto state for, in the order it meets them.  A read of a
\* marker that is not in the vector ends the walk with overrun set; a failed
\* assertion is recorded in asserts.
RECURSIVE WalkRanges(_, _, _)
WalkRanges(v, j, acc) ==
    IF j > Len(v) THEN acc
    ELSE IF j + 1 > Len(v) THEN [acc EXCEPT !.overrun = TRUE]
    ELSE LET begin == v[j].first
             end == v[j + 1].first
             acc2 == [acc EXCEPT !.ranges = Append(@, <<begin, end>>),
                                 !.asserts = @ /\ begin < end]
         IN  IF ~v[j + 1].second
                 THEN WalkRanges(v, j + 2,
                        [acc2 EXCEPT !.asserts =
                            @ /\ (j + 2 > Len(v) \/ v[j + 2].second)])
                 ELSE WalkRanges(v, j + 1, acc2)

\* The walk as it would be if every range ran up to the last marker.
RECURSIVE WalkToLast(_, _, _)
WalkToLast(v, j, acc) ==
    IF j >= Len(v) THEN acc
    ELSE WalkToLast(v, IF v[j + 1].second THEN j + 1 ELSE j + 2,
                    [acc EXCEPT !.ranges = Append(@, <<v[j].first, v[Len(v)].first>>)])

DistinctRangesToLast(v) ==
    WalkToLast(v, 1, [ranges |-> <<>>, overrun |-> FALSE, asserts |-> TRUE])

\* The walk as it would be if a marker were skipped after every range.
RECURSIVE WalkSkipping(_, _, _)
WalkSkipping(v, j, acc) ==
    IF j >= Len(v) THEN acc
    ELSE WalkSkipping(v, j + 2,
                      [acc EXCEPT !.ranges = Append(@, <<v[j].first, v[j + 1].first>>)])

DistinctRangesSkipping(v) ==
    WalkSkipping(v, 1, [ranges |-> <<>>, overrun |-> FALSE, asserts |-> TRUE])

DistinctRanges(v) ==
    WalkRanges(v, 1, [ranges |-> <<>>, overrun |-> FALSE, asserts |-> TRUE])

(***************************************************************************)
(* Regular expressions and the positions RegexParser computes from them.   *)
(* A regular expression is a tree of records; its leaves are the positions *)
(* (RegexNode with a character range, or an End node holding its token).   *)
(***************************************************************************)
Range(lo, hi) == [kind |-> "Range", lo |-> lo, hi |-> hi]
Literal(c) == Range(c, c + 1)
Concat(l, r) == [kind |-> "Concat", l |-> l, r |-> r]
Alt(l, r) == [kind |-> "Alt", l |-> l, r |-> r]
Star(x) == [kind |-> "Star", x |-> x]
Plus(x) == [kind |-> "Plus", x |-> x]
Optional(x) == [kind |-> "Optional", x |-> x]
End(token) == [kind |-> "End", token |-> token]

IsLeaf(n) == n.kind \in {"Range", "End"}
IsBinary(n) == n.kind \in {"Concat", "Alt"}

\* The number of positions of a tree.
RECURSIVE Leaves(_)
Leaves(n) ==
    IF IsLeaf(n) THEN 1
    ELSE IF IsBinary(n) THEN Leaves(n.l) + Leaves(n.r)
    ELSE Leaves(n.x)

RECURSIVE Nullable(_)
Nullable(n) ==
    CASE IsLeaf(n) -> FALSE
      [] n.kind = "Concat" -> Nullable(n.l) /\ Nullable(n.r)
      [] n.kind = "Alt" -> Nullable(n.l) \/ Nullable(n.r)
      [] n.kind = "Plus" -> Nullable(n.x)
      [] OTHER -> TRUE

\* firstpos of the tree n whose leftmost position has the index base.
RECURSIVE FirstPos(_, _)
FirstPos(n, base) ==
    CASE IsLeaf(n) -> {base}
      [] n.kind = "Concat" ->
            FirstPos(n.l, base) \cup
                (IF Nullable(n.l) THEN FirstPos(n.r, base + Leaves(n.l)) ELSE {})
      [] n.kind = "Alt" -> FirstPos(n.l, base) \cup FirstPos(n.r, base + Leaves(n.l))
      [] OTHER -> FirstPos(n.x, base)

RECURSIVE LastPos(_, _)
LastPos(n, base) ==
    CASE IsLeaf(n) -> {base}
      [] n.kind = "Concat" ->
            LastPos(n.r, base + Leaves(n.l)) \cup
                (IF Nullable(n.r) THEN LastPos(n.l, base) ELSE {})
      [] n.kind = "Alt" -> LastPos(n.l, base) \cup LastPos(n.r, base + Leaves(n.l))
      [] OTHER -> LastPos(n.x, base)

\* followpos as a set of pairs <<p, q>>: q follows p.
RECURSIVE FollowPos(_, _)
FollowPos(n, base) ==
    CASE IsLeaf(n) -> {}
      [] n.kind = "Concat" ->
            FollowPos(n.l, base) \cup FollowPos(n.r, base + Leaves(n.l)) \cup
                (LastPos(n.l, base) \X FirstPos(n.r, base + Leaves(n.l)))
      [] n.kind = "Alt" -> FollowPos(n.l, base) \cup FollowPos(n.r, base + Leaves(n.l))
      [] n.kind \in {"Star", "Plus"} ->
            FollowPos(n.x, base) \cup (LastPos(n.x, base) \X FirstPos(n.x, base))
      [] OTHER -> FollowPos(n.x, base)

\* The positions of a tree from left to right.
RECURSIVE LeafSeq(_)
LeafSeq(n) ==
    IF IsLeaf(n) THEN <<n>>
    ELSE IF IsBinary(n) THEN LeafSeq(n.l) \o LeafSeq(n.r)
    ELSE LeafSeq(n.x)

(***************************************************************************)
(* The regular expressions the tokens of the model are drawn from, over    *)
(* the characters a = 0, b = 1, c = 2.  Malformed stands for a source text *)
(* RegexParser reports a syntax error for.                                 *)
(***************************************************************************)
Malformed == [kind |-> "Malformed"]

\* LexerTokenType: a literal token outranks a regular expression token.
TOKEN_NULL == 0
TOKEN_REGULAR_EXPRESSION == TOKEN_NULL + 1
TOKEN_LITERAL == TOKEN_NULL + 2

\* The regular expression and the type of a token.
Lexemes ==
    { <<Literal(0), TOKEN_LITERAL>>,                                        \* "a"
      <<Range(0, 3), TOKEN_REGULAR_EXPRESSION>>,                            \* [a-c]
      <<Concat(Star(Literal(0)), Literal(1)), TOKEN_REGULAR_EXPRESSION>>,   \* a*b
      <<Concat(Literal(0), Optional(Range(1, 3))), TOKEN_REGULAR_EXPRESSION>>, \* a[b-c]?
      <<Malformed, TOKEN_REGULAR_EXPRESSION>> }

WhitespaceLexemes ==
    { <<Plus(Literal(2)), TOKEN_REGULAR_EXPRESSION>>,                       \* c+
      <<Alt(Literal(0), Range(1, 3)), TOKEN_REGULAR_EXPRESSION>> }          \* a|[b-c]

(***************************************************************************)
(* RegexParser( tokens, generator ): the tokens' trees joined under one    *)
(* root, each followed by the End node of its token; errors() counts the   *)
(* malformed ones, which contribute no tree.                               *)
(***************************************************************************)
WellFormed(tokens) == {k \in 1 .. Len(tokens) : tokens[k].regex.kind # "Malformed"}

NoTree == [kind |-> "NoTree"]

RECURSIVE JoinTokens(_, _)
JoinTokens(tokens, k) ==
    IF k = 0 THEN NoTree
    ELSE LET rest == JoinTokens(tokens, k - 1)
         IN  IF tokens[k].regex.kind = "Malformed" THEN rest
             ELSE LET tree == Concat(tokens[k].regex, End(k))
                  IN  IF rest.kind = "NoTree" THEN tree ELSE Alt(rest, tree)

RegexParser(tokens) ==
    LET root == JoinTokens(tokens, Len(tokens))
        none == root.kind = "NoTree"
        follow == IF none THEN {} ELSE FollowPos(root, 1)
        leaves == IF none THEN <<>> ELSE LeafSeq(root)
    IN  [ empty |-> none,
          errors |-> Len(tokens) - Cardinality(WellFormed(tokens)),
          first_positions |-> IF none THEN {} ELSE FirstPos(root, 1),
          nodes |-> [p \in 1 .. Len(leaves) |->
                        [ index |-> p,
                          is_end |-> leaves[p].kind = "End",
                          begin_character |->
                              IF leaves[p].kind = "End" THEN 0 ELSE leaves[p].lo,
                          end_character |->
                              IF leaves[p].kind = "End" THEN 0 ELSE leaves[p].hi,
                          token |->
                              IF leaves[p].kind = "End" THEN leaves[p].token ELSE NULL,
                          next_positions |-> {pq[2] : pq \in {x \in follow : x[1] = p}} ]] ]

(***************************************************************************)
(* The state of a LexerGenerator under construction.                       *)
(***************************************************************************)
VARIABLES
    tokens,                  \* the constructor's token list
    whitespace_tokens,       \* the constructor's whitespace token list
    event_sink_,             \* TRUE when the LexerErrorPolicy pointer is not null
    sink,                    \* what the LexerErrorPolicy has been told, in order
    heap,                    \* the LexerState objects allocated and kept so far
    states_,                 \* the addresses in the set states_
    whitespace_states_,      \* the addresses in the set whitespace_states_
    start_state_,
    whitespace_start_state_,
    ranges_,
    parsers,                 \* the RegexParser made for each of the two lists
    generating,              \* the set the running generate_states call fills
    pc,                      \* where the constructor stands
    i,                       \* the iterator of the for loop over the states
    added,
    inserted,                \* the ranges given to insert() since the last clear()
    actions_,                \* the LexerAction objects, in the order of the vector
    calls                    \* the add_lexer_action calls made and what they returned

vars == <<tokens, whitespace_tokens, event_sink_, sink, heap, states_,
          whitespace_states_, start_state_, whitespace_start_state_, ranges_,
          parsers, generating, pc, i, added, inserted, actions_, calls>>

INT_MAX == 2147483647
INVALID_INDEX == -1

(***************************************************************************)
(* LexerItem and LexerState.  An item is the set of the indices of its     *)
(* next nodes; the items of a state are a set of items.  Both are ordered  *)
(* lexicographically, the nodes by their index.                            *)
(***************************************************************************)
RegexNodeLess(p, q) == p < q

\* LexerItem::operator<: the next nodes of the two items are compared element
\* by element in ascending order.  m is the least node only one of them has.
LexerItemLess(a, b) ==
    LET D == (a \ b) \cup (b \ a)
    IN  /\ D # {}
        /\ LET m == CHOOSE x \in D : \A y \in D : x = y \/ RegexNodeLess(x, y)
           IN  IF m \in a THEN \E y \in b : RegexNodeLess(m, y)
                          ELSE ~ \E x \in a : RegexNodeLess(m, x)

\* LexerState::operator<, the order of the sets of states: the items of the
\* two states are compared element by element in ascending order.
LexerStateLess(x, y) ==
    LET D == (x \ y) \cup (y \ x)
    IN  /\ D # {}
        /\ LET m == CHOOSE a \in D : \A b \in D : a = b \/ LexerItemLess(a, b)
           IN  IF m \in x THEN \E b \in y : LexerItemLess(m, b)
                          ELSE ~ \E a \in x : LexerItemLess(m, a)

\* The next nodes of an item in the order an iteration meets them.
RECURSIVE NodesInOrder(_)
NodesInOrder(item) ==
    IF item = {} THEN <<>>
    ELSE LET m == CHOOSE p \in item : \A q \in item : p <= q
         IN  <<m>> \o NodesInOrder(item \ {m})

\* The next nodes of all the items of a state in the order the nested
\* iterations (items, then the next nodes of each) meet them.
RECURSIVE NextNodesInOrder(_)
NextNodesInOrder(items) ==
    IF items = {} THEN <<>>
    ELSE LET m == CHOOSE a \in items : \A b \in items : a = b \/ LexerItemLess(a, b)
         IN  NodesInOrder(m) \o NextNodesInOrder(items \ {m})

\* new LexerState(): no items, no transitions, not processed.
NewLexerState(items) ==
    [ items |-> items, transitions |-> <<>>, symbol |-> NULL,
      processed |-> FALSE, index |-> INVALID_INDEX ]

\* LexerItem::next_nodes( begin, end ): the followpos of the next nodes of
\* the item that are no End node and whose range meets [begin, end).
next_nodes(nodes, item, begin, end) ==
    UNION { nodes[p].next_positions :
              p \in { q \in item : /\ ~nodes[q].is_end
                                  /\ nodes[q].begin_character < end
                                  /\ begin < nodes[q].end_character } }

\* LexerGenerator::goto_: the items of the state reached from the items on
\* [begin, end); an item with no next nodes is not added.
goto_(nodes, items, begin, end) ==
    { next_nodes(nodes, item, begin, end) : item \in items } \ {{}}

\* LexerState::add_transition.
add_transition(state, begin, end, target) ==
    [state EXCEPT !.transitions =
        Append(@, [begin |-> begin, end |-> end, state |-> target])]

(***************************************************************************)
(* The sets of states: std::set ordered by the items of the states.        *)
(***************************************************************************)
\* The first address of a set in its order, NULL (end()) for an empty set.
SetBegin(h, set) ==
    IF set = {} THEN NULL
    ELSE CHOOSE s \in set :
            \A t \in set : s = t \/ LexerStateLess(h[s].items, h[t].items)

\* ++i: the address after s in the set, NULL at the end.
SetNext(h, set, s) ==
    SetBegin(h, {t \in set : LexerStateLess(h[s].items, h[t].items)})

\* The member of the set equivalent to a state with these items, or NULL.
SetFind(h, set, items) ==
    LET same == {t \in set : /\ ~LexerStateLess(items, h[t].items)
                             /\ ~LexerStateLess(h[t].items, items)}
    IN  IF same = {} THEN NULL ELSE CHOOSE t \in same : TRUE

\* The addresses of a set in its order.
RECURSIVE SetInOrder(_, _)
SetInOrder(h, set) ==
    IF set = {} THEN <<>>
    ELSE LET s == SetBegin(h, set) IN <<s>> \o SetInOrder(h, set \ {s})

(***************************************************************************)
(* LexerGenerator::fire_error and generate_symbol_for_state.               *)
(***************************************************************************)
fire_error(log, sink_present, line, error) ==
    IF sink_present THEN Append(log, [line |-> line, error |-> error]) ELSE log

\* The conflict of two tokens of the list `list`, met on the state `state`.
LexerSymbolConflictError(list, state, token, other) ==
    [ kind |-> "SymbolConflict", list |-> list, state |-> state,
      token |-> token, other |-> other ]

\* The step as it would be if the later line won on equal type.
SymbolStepLaterLine(list, toks, state, node, acc, sink_present) ==
    IF ~(node.is_end /\ node.token # NULL) THEN acc
    ELSE LET t == toks[node.token]
         IN  IF t.type > acc.type \/ (t.type = acc.type /\ acc.line # INT_MAX /\ t.line > acc.line)
                 THEN [acc EXCEPT !.line = t.line, !.type = t.type,
                                  !.token = node.token]
             ELSE IF t.type = acc.type /\ t.line = acc.line
                 THEN [acc EXCEPT !.log =
                         fire_error(@, sink_present, toks[acc.token].line,
                                    LexerSymbolConflictError(list, state, acc.token,
                                                             node.token))]
             ELSE acc

\* The step as it would be if a token of equal type replaced the selection
\* when its line is earlier or the same.
SymbolStepNoConflict(list, toks, state, node, acc, sink_present) ==
    IF ~(node.is_end /\ node.token # NULL) THEN acc
    ELSE LET t == toks[node.token]
         IN  IF t.type > acc.type \/ (t.type = acc.type /\ t.line <= acc.line)
                 THEN [acc EXCEPT !.line = t.line, !.type = t.type,
                                  !.token = node.token]
             ELSE acc

\* One step of the walk of generate_symbol_for_state over the next nodes:
\* acc holds line, type, token and the log of the sink.
SymbolStep(list, toks, state, node, acc, sink_present) ==
    IF ~(node.is_end /\ node.token # NULL) THEN acc
    ELSE LET t == toks[node.token]
         IN  IF t.type > acc.type
                 THEN [acc EXCEPT !.line = t.line, !.type = t.type,
                                  !.token = node.token]
             ELSE IF t.type = acc.type /\ t.line < acc.line
                 THEN [acc EXCEPT !.line = t.line, !.type = t.type,
                                  !.token = node.token]
             ELSE IF t.type = acc.type /\ t.line = acc.line
                 THEN [acc EXCEPT !.log =
                         fire_error(@, sink_present, toks[acc.token].line,
                                    LexerSymbolConflictError(list, state, acc.token,
                                                             node.token))]
             ELSE acc

RECURSIVE SymbolWalk(_, _, _, _, _, _, _, _)
SymbolWalk(list, toks, nodes, state, order, k, acc, sink_present) ==
    IF k > Len(order) THEN acc
    ELSE SymbolWalk(list, toks, nodes, state, order, k + 1,
                    SymbolStep(list, toks, state, nodes[order[k]], acc, sink_present),
                    sink_present)

\* generate_symbol_for_state as it would be if a conflict left the symbol
\* of the state null.
generate_symbol_unset_on_conflict(list, toks, nodes, state, items, log, sink_present) ==
    LET acc == SymbolWalk(list, toks, nodes, state, NextNodesInOrder(items), 1,
                          [line |-> INT_MAX, type |-> TOKEN_NULL,
                           token |-> NULL, log |-> log], sink_present)
    IN  [ symbol |-> IF acc.token # NULL /\ acc.log = log
                        THEN toks[acc.token].symbol ELSE NULL,
          log |-> acc.log ]

\* generate_symbol_for_state: the symbol set on the state and the log of the
\* sink afterwards.
generate_symbol_for_state(list, toks, nodes, state, items, log, sink_present) ==
    LET acc == SymbolWalk(list, toks, nodes, state, NextNodesInOrder(items), 1,
                          [line |-> INT_MAX, type |-> TOKEN_NULL,
                           token |-> NULL, log |-> log], sink_present)
    IN  [ symbol |-> IF acc.token # NULL THEN toks[acc.token].symbol ELSE NULL,
          log |-> acc.log ]

(***************************************************************************)
(* The inputs of the constructor.                                          *)
(***************************************************************************)
Lines == 1 .. MaxLine

LexerToken(regex, type, line, symbol) ==
    [regex |-> regex, type |-> type, line |-> line, symbol |-> symbol]

\* The lists of at most n tokens over the lexemes ls and the lines; the
\* symbol of the k-th token of a list is k.
TokenLists(n, ls, lines) ==
    UNION { { [k \in 1 .. m |-> LexerToken(f[k][1][1], f[k][1][2], f[k][2], k)] :
                f \in [1 .. m -> ls \X lines] } : m \in 0 .. n }

\* The whitespace lists: none, or one of the whitespace lexemes on line 1.
WhitespaceLists == TokenLists(1, WhitespaceLexemes, {1})

NoParser == [empty |-> TRUE, errors |-> 0, first_positions |-> {}, nodes |-> <<>>]

(***************************************************************************)
(* The two calls of generate_states made by the constructor.               *)
(***************************************************************************)
TokensOf(which) == IF which = "states" THEN tokens ELSE whitespace_tokens
SetOf(which) == IF which = "states" THEN states_ ELSE whitespace_states_

\* The errors RegexParser reports through the generator while parsing.
RECURSIVE ParseErrors(_, _, _, _, _)
ParseErrors(list, toks, k, log, sink_present) ==
    IF k > Len(toks) THEN log
    ELSE ParseErrors(list, toks, k + 1,
            IF toks[k].regex.kind = "Malformed"
                THEN fire_error(log, sink_present, toks[k].line,
                                [kind |-> "Syntax", list |-> list, token |-> k])
                ELSE log,
            sink_present)

\* The condition as it would be if the errors of the parser were not asked.
ParsedNotEmpty(parser) == ~parser.empty

\* The condition generate_states makes states under.
Parsed(parser) == ~parser.empty /\ parser.errors = 0

\* The constructor makes the RegexParser of a list and calls
\* generate_states, which runs up to the head of its for loop, or up to
\* generate_indices_for_states when the parser is empty or reported errors.
BeginGenerate(which, toks) ==
    LET
        parser == RegexParser(toks)
        parsed == ParseErrors(which, toks, 1, sink, event_sink_)
        state == Len(heap) + 1
        items == {parser.first_positions}
        sym == generate_symbol_for_state(which, toks, parser.nodes, state, items,
                                         parsed, event_sink_)
    IN  /\ parsers' = [parsers EXCEPT ![which] = parser]
        /\ generating' = which
        /\ IF Parsed(parser)
             THEN /\ heap' = Append(heap, [NewLexerState(items) EXCEPT !.symbol = sym.symbol])
                  /\ sink' = sym.log
                  /\ IF which = "states"
                        THEN /\ states_' = {state}
                             /\ start_state_' = state
                             /\ UNCHANGED <<whitespace_states_, whitespace_start_state_>>
                        ELSE /\ whitespace_states_' = {state}
                             /\ whitespace_start_state_' = state
                             /\ UNCHANGED <<states_, start_state_>>
                  /\ added' = 0
                  /\ i' = state
                  /\ pc' = "for"
             ELSE /\ sink' = parsed
                  /\ pc' = "indices"
                  /\ UNCHANGED <<heap, states_, whitespace_states_, start_state_,
                                 whitespace_start_state_, added, i>>
        /\ UNCHANGED <<event_sink_, ranges_, inserted, actions_, calls>>

\* The first call: generate_states( RegexParser(tokens, this), &states_,
\* &start_state_ ).
GenerateStates ==
    /\ pc = "tokens"
    /\ BeginGenerate("states", tokens)
    /\ UNCHANGED <<tokens, whitespace_tokens>>

\* The second call, on the whitespace list, which is drawn here, where the
\* constructor first reads it.
GenerateWhitespaceStates ==
    /\ pc = "whitespace_tokens"
    /\ \E list \in WhitespaceLists :
        /\ whitespace_tokens' = list
        /\ BeginGenerate("whitespace", list)
    /\ UNCHANGED tokens

\* The ranges of the next nodes of a state that are no End node, in the
\* order generate_states gives them to insert().
RECURSIVE RangesToInsert(_, _, _)
RangesToInsert(nodes, order, k) ==
    IF k > Len(order) THEN <<>>
    ELSE (IF nodes[order[k]].is_end THEN <<>>
          ELSE << <<nodes[order[k]].begin_character,
                    nodes[order[k]].end_character>> >>)
         \o RangesToInsert(nodes, order, k + 1)

RECURSIVE InsertAll(_, _, _)
InsertAll(v, rs, k) ==
    IF k > Len(rs) THEN v
    ELSE InsertAll(insert(v, rs[k][1], rs[k][2]), rs, k + 1)

\* The body as it would be if the transition were added for a new state only.
EmitRangeNewOnly(list, toks, nodes, state, range, acc, sink_present) ==
    LET items == goto_(nodes, acc.heap[state].items, range[1], range[2])
        found == SetFind(acc.heap, acc.set, items)
        fresh == Len(acc.heap) + 1
        sym == generate_symbol_for_state(list, toks, nodes, fresh, items, acc.log,
                                         sink_present)
    IN  IF items = {} \/ found # NULL THEN acc
        ELSE [ heap |-> [Append(acc.heap,
                            [NewLexerState(items) EXCEPT !.symbol = sym.symbol])
                         EXCEPT ![state] =
                            add_transition(@, range[1], range[2], fresh)],
               set |-> acc.set \cup {fresh},
               added |-> acc.added + 1,
               log |-> sym.log ]

\* The body as it would be if the transition were added to the state it
\* leads to.
EmitRangeOnTarget(list, toks, nodes, state, range, acc, sink_present) ==
    LET items == goto_(nodes, acc.heap[state].items, range[1], range[2])
        found == SetFind(acc.heap, acc.set, items)
        fresh == Len(acc.heap) + 1
        sym == generate_symbol_for_state(list, toks, nodes, fresh, items, acc.log,
                                         sink_present)
    IN  IF items = {} THEN acc
        ELSE IF found = NULL
            THEN [ heap |-> Append(acc.heap,
                                add_transition(
                                    [NewLexerState(items) EXCEPT !.symbol = sym.symbol],
                                    range[1], range[2], fresh)),
                   set |-> acc.set \cup {fresh},
                   added |-> acc.added + 1,
                   log |-> sym.log ]
            ELSE [acc EXCEPT !.heap[found] =
                                add_transition(@, range[1], range[2], found)]

\* The body as it would be if the transition led to goto_state, the state
\* that the set did not take, when an equivalent state is in the set.
EmitRangeToDuplicate(list, toks, nodes, state, range, acc, sink_present) ==
    LET items == goto_(nodes, acc.heap[state].items, range[1], range[2])
        found == SetFind(acc.heap, acc.set, items)
        fresh == Len(acc.heap) + 1
        sym == generate_symbol_for_state(list, toks, nodes, fresh, items, acc.log,
                                         sink_present)
    IN  IF items = {} THEN acc
        ELSE IF found = NULL
            THEN [ heap |-> [Append(acc.heap,
                                [NewLexerState(items) EXCEPT !.symbol = sym.symbol])
                             EXCEPT ![state] =
                                add_transition(@, range[1], range[2], fresh)],
                   set |-> acc.set \cup {fresh},
                   added |-> acc.added + 1,
                   log |-> sym.log ]
            ELSE [acc EXCEPT !.heap[state] =
                                add_transition(@, range[1], range[2], fresh)]

\* The body of the loop over the distinct ranges for the range rs[k] of the
\* state: goto_, the interning insert into the set, the symbol of a new
\* state and the transition.  acc holds heap, set, added and log.
EmitRange(list, toks, nodes, state, range, acc, sink_present) ==
    LET items == goto_(nodes, acc.heap[state].items, range[1], range[2])
        found == SetFind(acc.heap, acc.set, items)
        fresh == Len(acc.heap) + 1
        sym == generate_symbol_for_state(list, toks, nodes, fresh, items, acc.log,
                                         sink_present)
    IN  IF items = {} THEN acc
        ELSE IF found = NULL
            THEN [ heap |-> [Append(acc.heap,
                                [NewLexerState(items) EXCEPT !.symbol = sym.symbol])
                             EXCEPT ![state] =
                                add_transition(@, range[1], range[2], fresh)],
                   set |-> acc.set \cup {fresh},
                   added |-> acc.added + 1,
                   log |-> sym.log ]
            ELSE [acc EXCEPT !.heap[state] =
                                add_transition(@, range[1], range[2], found)]

RECURSIVE EmitRanges(_, _, _, _, _, _, _, _)
EmitRanges(list, toks, nodes, state, rs, k, acc, sink_present) ==
    IF k > Len(rs) THEN acc
    ELSE EmitRanges(list, toks, nodes, state, rs, k + 1,
                    EmitRange(list, toks, nodes, state, rs[k], acc, sink_present),
                    sink_present)

\* The head of a turn of the for loop on a state that is not processed yet:
\* the state is marked processed and the ranges of its next nodes are
\* inserted into the cleared ranges_.
ProcessState ==
    /\ pc = "for"
    /\ i # NULL
    /\ ~heap[i].processed
    /\ LET nodes == parsers[generating].nodes
           rs == RangesToInsert(nodes, NextNodesInOrder(heap[i].items), 1)
       IN  /\ heap' = [heap EXCEPT ![i].processed = TRUE]
           /\ ranges_' = InsertAll(clear, rs, 1)
           /\ inserted' = rs
    /\ pc' = "walk"
    /\ UNCHANGED <<actions_, calls, tokens, whitespace_tokens, event_sink_, sink,
                   states_, whitespace_states_, start_state_,
                   whitespace_start_state_, parsers, generating, i, added>>

\* The rest of the turn: the walk over the distinct ranges of ranges_, which
\* adds the transitions of the state, and the step of the iterator.
AddTransitions ==
    /\ pc = "walk"
    /\ LET toks == TokensOf(generating)
           nodes == parsers[generating].nodes
           walk == DistinctRanges(ranges_)
           acc == EmitRanges(generating, toks, nodes, i, walk.ranges, 1,
                             [ heap |-> heap, set |-> SetOf(generating),
                               added |-> added, log |-> sink ], event_sink_)
       IN  /\ heap' = acc.heap
           /\ added' = acc.added
           /\ sink' = acc.log
           /\ IF generating = "states"
                 THEN states_' = acc.set /\ UNCHANGED whitespace_states_
                 ELSE whitespace_states_' = acc.set /\ UNCHANGED states_
           /\ IF walk.overrun \/ ~walk.asserts
                 THEN pc' = "undefined" /\ i' = NULL
                 ELSE pc' = "for" /\ i' = SetNext(acc.heap, acc.set, i)
    /\ UNCHANGED <<actions_, calls, tokens, whitespace_tokens, event_sink_,
                   start_state_, whitespace_start_state_, ranges_, parsers,
                   generating, inserted>>

\* One turn of the for loop on a state that is processed already.
SkipState ==
    /\ pc = "for"
    /\ i # NULL
    /\ heap[i].processed
    /\ i' = SetNext(heap, SetOf(generating), i)
    /\ UNCHANGED <<actions_, calls, tokens, whitespace_tokens, event_sink_, sink, heap, states_,
                   whitespace_states_, start_state_, whitespace_start_state_,
                   ranges_, parsers, generating, pc, added, inserted>>

\* The for loop is at end() and states were added: the while loop turns.
NextPass ==
    /\ pc = "for"
    /\ i = NULL
    /\ added > 0
    /\ added' = 0
    /\ i' = SetBegin(heap, SetOf(generating))
    /\ UNCHANGED <<actions_, calls, tokens, whitespace_tokens, event_sink_, sink, heap, states_,
                   whitespace_states_, start_state_, whitespace_start_state_,
                   ranges_, parsers, generating, pc, inserted>>

\* The end of the loop as it would be if the while loop made one pass only.
ExitLoopAfterOnePass ==
    /\ pc = "for"
    /\ i = NULL
    /\ pc' = "indices"
    /\ UNCHANGED <<actions_, calls, tokens, whitespace_tokens, event_sink_, sink, heap, states_,
                   whitespace_states_, start_state_, whitespace_start_state_,
                   ranges_, parsers, generating, i, added, inserted>>

\* The for loop is at end() and nothing was added: the while loop ends.
ExitLoop ==
    /\ pc = "for"
    /\ i = NULL
    /\ added = 0
    /\ pc' = "indices"
    /\ UNCHANGED <<actions_, calls, tokens, whitespace_tokens, event_sink_, sink, heap, states_,
                   whitespace_states_, start_state_, whitespace_start_state_,
                   ranges_, parsers, generating, i, added, inserted>>

\* The index as it would be if the count began again at 0 for the
\* whitespace states.
IndexOfRestarting(h, main, whitespace, s) ==
    LET order == IF s \in main THEN SetInOrder(h, main) ELSE SetInOrder(h, whitespace)
    IN  (CHOOSE k \in 1 .. Len(order) : order[k] = s) - 1

\* The index as it would be if the whitespace states were counted first.
IndexOfWhitespaceFirst(h, main, whitespace, s) ==
    LET order == SetInOrder(h, whitespace) \o SetInOrder(h, main)
    IN  (CHOOSE k \in 1 .. Len(order) : order[k] = s) - 1

\* The index each state gets: states_ in order from 0, then
\* whitespace_states_ in order, continuing the count.
IndexOf(h, main, whitespace, s) ==
    LET order == SetInOrder(h, main) \o SetInOrder(h, whitespace)
    IN  (CHOOSE k \in 1 .. Len(order) : order[k] = s) - 1

generate_indices_for_states ==
    /\ pc = "indices"
    /\ heap' = [s \in 1 .. Len(heap) |->
                  IF s \in states_ \cup whitespace_states_
                      THEN [heap[s] EXCEPT !.index =
                              IndexOf(heap, states_, whitespace_states_, s)]
                      ELSE heap[s]]
    /\ pc' = IF generating = "states" THEN "whitespace_tokens" ELSE "done"
    /\ UNCHANGED <<actions_, calls, tokens, whitespace_tokens, event_sink_, sink, states_,
                   whitespace_states_, start_state_, whitespace_start_state_,
                   ranges_, parsers, generating, i, added, inserted>>

(***************************************************************************)
(* The constructor: its start, its steps.                                  *)
(***************************************************************************)
Init ==
    /\ tokens \in TokenLists(MaxTokens, Lexemes, Lines)
    /\ whitespace_tokens = <<>>
    /\ event_sink_ \in BOOLEAN
    /\ sink = <<>>
    /\ heap = <<>>
    /\ states_ = {}
    /\ whitespace_states_ = {}
    /\ start_state_ = NULL
    /\ whitespace_start_state_ = NULL
    /\ ranges_ = <<>>
    /\ parsers = [states |-> NoParser, whitespace |-> NoParser]
    /\ generating = "states"
    /\ pc = "tokens"
    /\ i = NULL
    /\ added = 0
    /\ inserted = <<>>
    /\ actions_ = <<>>
    /\ calls = <<>>

Next ==
    \/ GenerateStates
    \/ GenerateWhitespaceStates
    \/ ProcessState
    \/ AddTransitions
    \/ SkipState
    \/ NextPass
    \/ ExitLoop
    \/ generate_indices_for_states

Spec == Init /\ [][Next]_vars

(***************************************************************************)
(* The range set on its own: clear() and then insert() calls on ranges_,   *)
(* the rest of the generator standing still.                               *)
(***************************************************************************)
NonEmptyRanges == {r \in (0 .. MaxChar) \X (0 .. MaxChar) : r[1] < r[2]}

RsInit ==
    /\ tokens = <<>>
    /\ whitespace_tokens = <<>>
    /\ event_sink_ = FALSE
    /\ sink = <<>>
    /\ heap = <<>>
    /\ states_ = {}
    /\ whitespace_states_ = {}
    /\ start_state_ = NULL
    /\ whitespace_start_state_ = NULL
    /\ ranges_ = clear
    /\ parsers = [states |-> NoParser, whitespace |-> NoParser]
    /\ generating = "states"
    /\ pc = "ranges"
    /\ i = NULL
    /\ added = 0
    /\ inserted = <<>>
    /\ actions_ = <<>>
    /\ calls = <<>>

RsFrame ==
    UNCHANGED <<actions_, calls, tokens, whitespace_tokens, event_sink_, sink, heap, states_,
                whitespace_states_, start_state_, whitespace_start_state_,
                parsers, generating, pc, i, added>>

RsClear ==
    /\ pc = "ranges"
    /\ inserted # <<>>
    /\ ranges_' = clear
    /\ inserted' = <<>>
    /\ RsFrame

RsInsert ==
    /\ pc = "ranges"
    /\ Len(inserted) < MaxInserts
    /\ \E r \in NonEmptyRanges :
        /\ ranges_' = insert(ranges_, r[1], r[2])
        /\ inserted' = Append(inserted, r)
    /\ RsFrame

RsNext == RsClear \/ RsInsert

SpecRanges == RsInit /\ [][RsNext]_vars

(***************************************************************************)
(* The registry of actions on its own: add_lexer_action calls, as          *)
(* RegexParser makes them for the action identifiers of the tokens, the    *)
(* rest of the generator standing still.  The address of an action is its  *)
(* place in actions_.                                                      *)
(***************************************************************************)
Identifiers == {"", "a", "b", "c"}

\* new LexerAction( index, identifier ).
LexerAction(index, identifier) == [index |-> index, identifier |-> identifier]

\* The while loop of add_lexer_action: the first place from k on whose action
\* has the identifier, Len(actions) + 1 (end()) when there is none.
RECURSIVE FindAction(_, _, _)
FindAction(actions, identifier, k) ==
    IF k > Len(actions) \/ actions[k].identifier = identifier THEN k
    ELSE FindAction(actions, identifier, k + 1)

\* The function as it would be without the search for the identifier.
add_lexer_action_unsearched(actions, identifier) ==
    IF identifier = "" THEN [actions |-> actions, action |-> NULL]
    ELSE [ actions |-> Append(actions, LexerAction(Len(actions), identifier)),
           action |-> Len(actions) + 1 ]

\* LexerGenerator::add_lexer_action: the vector afterwards and the action
\* returned, NULL for an empty identifier.
add_lexer_action(actions, identifier) ==
    IF identifier = "" THEN [actions |-> actions, action |-> NULL]
    ELSE LET k == FindAction(actions, identifier, 1)
         IN  IF k <= Len(actions)
                 THEN [actions |-> actions, action |-> k]
                 ELSE [ actions |-> Append(actions,
                                       LexerAction(Len(actions), identifier)),
                        action |-> Len(actions) + 1 ]

AcInit ==
    /\ tokens = <<>>
    /\ whitespace_tokens = <<>>
    /\ event_sink_ = FALSE
    /\ sink = <<>>
    /\ heap = <<>>
    /\ states_ = {}
    /\ whitespace_states_ = {}
    /\ start_state_ = NULL
    /\ whitespace_start_state_ = NULL
    /\ ranges_ = <<>>
    /\ parsers = [states |-> NoParser, whitespace |-> NoParser]
    /\ generating = "states"
    /\ pc = "actions"
    /\ i = NULL
    /\ added = 0
    /\ inserted = <<>>
    /\ actions_ = <<>>
    /\ calls = <<>>

\* One call.  With an empty identifier the assertion at the head of the
\* function stops the program where assertions are compiled in; where they
\* are not, the call returns null.
AddLexerAction ==
    /\ pc = "actions"
    /\ Len(calls) < MaxCalls
    /\ \E identifier \in Identifiers :
          LET r == add_lexer_action(actions_, identifier)
          IN  \/ /\ actions_' = r.actions
                 /\ calls' = Append(calls, [ identifier |-> identifier,
                                             action |-> r.action,
                                             actions |-> r.actions ])
                 /\ pc' = pc
              \/ /\ identifier = ""
                 /\ pc' = "asserted"
                 /\ UNCHANGED <<actions_, calls>>
    /\ UNCHANGED <<tokens, whitespace_tokens, event_sink_, sink, heap, states_,
                   whitespace_states_, start_state_, whitespace_start_state_,
                   ranges_, parsers, generating, i, added, inserted>>

AcNext == AddLexerAction

SpecActions == AcInit /\ [][AcNext]_vars

(***************************************************************************)
(* The selection of a symbol on its own: tokens that all match the string  *)
(* "a", given as a literal or as a regular expression, and the state the   *)
(* goto on 'a' from the start makes, which holds the End positions of all  *)
(* of them.  The walk of generate_symbol_for_state meets the End positions *)
(* in the order of their indices, the order of the tokens in the list.     *)
(***************************************************************************)
SameLexemes ==
    { <<Literal(0), TOKEN_LITERAL>>, <<Literal(0), TOKEN_REGULAR_EXPRESSION>> }

SyInit ==
    /\ tokens \in TokenLists(MaxEnds, SameLexemes, Lines) \ {<<>>}
    /\ whitespace_tokens = <<>>
    /\ event_sink_ \in BOOLEAN
    /\ sink = <<>>
    /\ parsers = [states |-> RegexParser(tokens), whitespace |-> NoParser]
    /\ heap = << NewLexerState(goto_(parsers["states"].nodes,
                                     {parsers["states"].first_positions}, 0, 1)) >>
    /\ states_ = {}
    /\ whitespace_states_ = {}
    /\ start_state_ = NULL
    /\ whitespace_start_state_ = NULL
    /\ ranges_ = <<>>
    /\ generating = "states"
    /\ pc = "symbol"
    /\ i = NULL
    /\ added = 0
    /\ inserted = <<>>
    /\ actions_ = <<>>
    /\ calls = <<>>

\* The state is inserted into the set and gets its symbol.
GenerateSymbolForState ==
    /\ pc = "symbol"
    /\ LET sym == generate_symbol_for_state("states", tokens, parsers["states"].nodes,
                                            1, heap[1].items, sink, event_sink_)
       IN  /\ heap' = [heap EXCEPT ![1].symbol = sym.symbol]
           /\ sink' = sym.log
    /\ states_' = {1}
    /\ pc' = "symbol_done"
    /\ UNCHANGED <<actions_, calls, tokens, whitespace_tokens, event_sink_,
                   whitespace_states_, start_state_, whitespace_start_state_,
                   ranges_, parsers, generating, i, added, inserted>>

SyNext == GenerateSymbolForState

SpecSymbol == SyInit /\ [][SyNext]_vars

(***************************************************************************)
(* What the properties below speak of.                                     *)
(***************************************************************************)
Lists == {"states", "whitespace"}

\* generate_states has been called for the list and has returned.
Generated(list) ==
    IF list = "states" THEN pc \in {"whitespace_tokens", "done"} \/ generating = "whitespace"
                       ELSE pc = "done"

StartOf(list) == IF list = "states" THEN start_state_ ELSE whitespace_start_state_

\* The End positions among the next nodes of the items of a state.
EndNodes(nodes, items) ==
    {p \in UNION items : nodes[p].is_end /\ nodes[p].token # NULL}

\* Token a outranks token b: a higher type, or the same type and an earlier line.
Outranks(a, b) == a.type > b.type \/ (a.type = b.type /\ a.line < b.line)

\* The tokens of the End positions of a state that no other one outranks.
BestTokens(toks, nodes, items) ==
    LET ends == {nodes[p].token : p \in EndNodes(nodes, items)}
    IN  {k \in ends : \A j \in ends : ~Outranks(toks[j], toks[k])}

\* The positions reached from the positions S on the character c.
PositionsAfter(nodes, S, c) ==
    UNION { nodes[p].next_positions :
              p \in { q \in S : /\ ~nodes[q].is_end
                               /\ nodes[q].begin_character <= c
                               /\ c < nodes[q].end_character } }

\* The state the transitions of the state s lead to on the character c, NULL
\* when none of them holds c.
StateAfter(s, c) ==
    IF s = NULL THEN NULL
    ELSE LET on == {k \in 1 .. Len(heap[s].transitions) :
                      /\ heap[s].transitions[k].begin <= c
                      /\ c < heap[s].transitions[k].end}
         IN  IF on = {} THEN NULL
             ELSE heap[s].transitions[CHOOSE k \in on : \A l \in on : k <= l].state

\* The characters of the lexemes and one more that none of them has.
Alphabet == 0 .. 3

\* The token k is to win among the tokens ends that match a string: no
\* token of ends outranks it and, when alone is asked, none ties with it.
Wins(toks, k, ends, alone) ==
    IF alone THEN \A j \in ends \ {k} : Outranks(toks[k], toks[j])
             ELSE \A j \in ends : ~Outranks(toks[j], toks[k])

\* For every string of at most n characters read from the positions S and
\* from the state s: each token whose End position the string reaches, and
\* that is to win, has its symbol on the state the string reaches.
RECURSIVE Accepts(_, _, _, _, _, _)
Accepts(toks, nodes, S, s, n, alone) ==
    /\ \A p \in EndNodes(nodes, {S}) :
          Wins(toks, nodes[p].token, {nodes[q].token : q \in EndNodes(nodes, {S})}, alone)
             => s # NULL /\ heap[s].symbol = toks[nodes[p].token].symbol
    /\ n > 0 =>
          \A c \in Alphabet :
             LET T == PositionsAfter(nodes, S, c)
             IN  T = {} \/ Accepts(toks, nodes, T, StateAfter(s, c), n - 1, alone)

\* Some string of at most n characters read from S reaches End positions of
\* two tokens of equal type and line.
RECURSIVE ReachesTie(_, _, _, _)
ReachesTie(toks, nodes, S, n) ==
    \/ \E p, q \in EndNodes(nodes, {S}) :
          /\ p # q
          /\ toks[nodes[p].token].type = toks[nodes[q].token].type
          /\ toks[nodes[p].token].line = toks[nodes[q].token].line
    \/ /\ n > 0
       /\ \E c \in Alphabet : ReachesTie(toks, nodes, PositionsAfter(nodes, S, c), n - 1)

\* Some string of at most n characters read from S reaches End positions of
\* two tokens one of which outranks the other.
RECURSIVE ReachesRanked(_, _, _, _)
ReachesRanked(toks, nodes, S, n) ==
    \/ \E p, q \in EndNodes(nodes, {S}) :
          Outranks(toks[nodes[p].token], toks[nodes[q].token])
    \/ /\ n > 0
       /\ \E c \in Alphabet :
             ReachesRanked(toks, nodes, PositionsAfter(nodes, S, c), n - 1)

(***************************************************************************)
(* C1.  Stated as in the claim: after generate_states has returned, every  *)
(* string of at most MaxLen characters that leads from firstpos(root)      *)
(* through followpos to End(Ti) drives the automaton from its start state, *)
(* along transitions that exist, to a state whose symbol is Ti.symbol, if  *)
(* no token of higher type, or of equal type and earlier line, matches the *)
(* string too.                                                             *)
(***************************************************************************)
AcceptsUnlessOutranked ==
    \A list \in Lists :
        Generated(list) /\ StartOf(list) # NULL =>
            Accepts(TokensOf(list), parsers[list].nodes,
                    parsers[list].first_positions, StartOf(list), MaxLen, FALSE)

(***************************************************************************)
(* C1 as amended: the same, if no other token of higher or of equal        *)
(* priority (higher type, or equal type and an earlier or the same line)   *)
(* matches the string too.                                                 *)
(***************************************************************************)
AcceptsUnlessOutrankedOrTied ==
    \A list \in Lists :
        Generated(list) /\ StartOf(list) # NULL =>
            Accepts(TokensOf(list), parsers[list].nodes,
                    parsers[list].first_positions, StartOf(list), MaxLen, TRUE)

\* The token list has been turned into an automaton in which a string
\* reaches the End positions of two tokens of different rank.
AcceptsWitness ==
    /\ Generated("states")
    /\ start_state_ # NULL
    /\ Cardinality(states_) >= 3
    /\ ReachesRanked(tokens, parsers["states"].nodes,
                     parsers["states"].first_positions, MaxLen)

(***************************************************************************)
(* C2.  The symbol of every state made is the symbol of a token that has   *)
(* the highest type of the End positions of the items of the state and,    *)
(* among those, the smallest line; a state without End positions has a     *)
(* null symbol.                                                            *)
(***************************************************************************)
SymbolIsOfBestToken ==
    \A list \in Lists : \A s \in SetOf(list) :
        LET toks == TokensOf(list)
            best == BestTokens(toks, parsers[list].nodes, heap[s].items)
        IN  IF EndNodes(parsers[list].nodes, heap[s].items) = {}
                THEN heap[s].symbol = NULL
                ELSE heap[s].symbol \in {toks[k].symbol : k \in best}

\* A state whose End positions hold two tokens of the same type, the one
\* met later on the earlier line, and which has the symbol of the later one.
SymbolWitness ==
    \E s \in states_ :
        \E p, q \in EndNodes(parsers["states"].nodes, heap[s].items) :
            LET a == tokens[parsers["states"].nodes[p].token]
                b == tokens[parsers["states"].nodes[q].token]
            IN  /\ p < q
                /\ a.type = b.type
                /\ b.line < a.line
                /\ heap[s].symbol = b.symbol

(***************************************************************************)
(* C3.  With a sink, every state whose End positions hold two distinct     *)
(* tokens of equal type and equal line that no other End position of the   *)
(* state outranks has a symbol conflict of two such tokens reported.       *)
(***************************************************************************)
Conflicts == {k \in 1 .. Len(sink) : sink[k].error.kind = "SymbolConflict"}

TieIsReported ==
    \A list \in Lists : \A s \in SetOf(list) :
        LET best == BestTokens(TokensOf(list), parsers[list].nodes, heap[s].items)
        IN  event_sink_ /\ Cardinality(best) >= 2 =>
                \E k \in Conflicts :
                    /\ sink[k].error.list = list
                    /\ sink[k].error.state = s
                    /\ sink[k].error.token # sink[k].error.other
                    /\ {sink[k].error.token, sink[k].error.other} \subseteq best

\* A state reached by a string two tokens of equal type and line match, with
\* the conflict in the log of the sink.
TieWitness ==
    /\ event_sink_
    /\ Conflicts # {}
    /\ \E s \in states_ :
          /\ s # start_state_
          /\ Cardinality(BestTokens(tokens, parsers["states"].nodes, heap[s].items)) >= 2

(***************************************************************************)
(* C4.  What is left of the automaton of a list once generate_states has   *)
(* returned: every state is processed, every transition leads to the state *)
(* of the set that holds the goto items of its range, and, at the end of   *)
(* the constructor, the states are numbered.                               *)
(***************************************************************************)
Closed(list) ==
    /\ \A s \in SetOf(list) :
          /\ heap[s].processed
          /\ \A k \in 1 .. Len(heap[s].transitions) :
                LET t == heap[s].transitions[k]
                IN  /\ t.state \in SetOf(list)
                    /\ heap[t.state].items =
                          goto_(parsers[list].nodes, heap[s].items, t.begin, t.end)
    /\ pc = "done" => \A s \in SetOf(list) : heap[s].index # INVALID_INDEX

\* The constructor has a next step to take.
CanStep ==
    \/ pc \in {"tokens", "whitespace_tokens", "indices"}
    \/ pc = "for" /\ (i = NULL \/ i \in SetOf(generating))
    \/ pc = "walk" /\ i \in SetOf(generating)

\* C4 as stated: the state a symbol conflict is reported for has a null
\* symbol, and construction goes on to closure.
ConflictLeavesSymbolUnset ==
    /\ \A k \in Conflicts : heap[sink[k].error.state].symbol = NULL
    /\ Conflicts # {} =>
          /\ pc = "done" \/ CanStep
          /\ \A list \in Lists : Generated(list) => Closed(list)

\* C4 as amended: the state a symbol conflict is reported for is not left
\* without a symbol, it has the symbol of one of its tokens that no other
\* outranks; construction is not aborted, it goes on to closure, and every
\* state has the symbol the selection rule gives it.
ConflictKeepsSymbol ==
    /\ \A k \in Conflicts :
          LET s == sink[k].error.state
              list == sink[k].error.list
              toks == TokensOf(list)
          IN  /\ heap[s].symbol # NULL
              /\ heap[s].symbol \in
                    {toks[j].symbol :
                        j \in BestTokens(toks, parsers[list].nodes, heap[s].items)}
    /\ Conflicts # {} =>
          /\ pc = "done" \/ CanStep
          /\ \A list \in Lists : Generated(list) => Closed(list)
          /\ SymbolIsOfBestToken

\* The constructor has ended with a conflict reported for a state of an
\* automaton that has further states.
ConflictWitness ==
    /\ pc = "done"
    /\ \E k \in Conflicts :
          /\ sink[k].error.list = "states"
          /\ sink[k].error.state # start_state_
          /\ Cardinality(states_) >= 3

(***************************************************************************)
(* C5.  Once generate_states has been called with a parser that is empty   *)
(* or has reported errors, the set of states is empty, the start state is  *)
(* null and nothing but the parser's own errors has reached the sink for   *)
(* that list; a set of states is not empty only if its parser is not empty *)
(* and reported no error.                                                  *)
(***************************************************************************)
Called(list) ==
    IF list = "states" THEN pc # "tokens" ELSE generating = "whitespace"

Unparsed(list) == parsers[list].empty \/ parsers[list].errors > 0

NoStatesUnlessParsed ==
    \A list \in Lists :
        /\ Called(list) /\ Unparsed(list) =>
              /\ SetOf(list) = {}
              /\ StartOf(list) = NULL
              /\ \A k \in 1 .. Len(sink) :
                    sink[k].error.list = list => sink[k].error.kind = "Syntax"
        /\ SetOf(list) # {} => Called(list) /\ ~Unparsed(list)

\* The constructor has ended; the parser of the tokens held a tree and had
\* reported an error, the parser of the whitespace tokens had not.
NoStatesWitness ==
    /\ pc = "done"
    /\ parsers["states"].errors > 0
    /\ ~parsers["states"].empty
    /\ event_sink_
    /\ states_ = {}
    /\ whitespace_states_ # {}

(***************************************************************************)
(* C6.  In SpecRanges: the ranges met by the walk over ranges_ are         *)
(* pairwise disjoint, their union is the union of the ranges inserted      *)
(* since clear(), and inserting those in any other order gives the same    *)
(* ranges_.                                                                *)
(***************************************************************************)
CharsOf(rs) ==
    {c \in 0 .. MaxChar : \E k \in 1 .. Len(rs) : rs[k][1] <= c /\ c < rs[k][2]}

Permuted(rs, f) == [k \in 1 .. Len(rs) |-> rs[f[k]]]

UnionInAnyOrder ==
    LET walk == DistinctRanges(ranges_)
    IN  /\ ~walk.overrun
        /\ \A k, l \in 1 .. Len(walk.ranges) :
              k < l => \/ walk.ranges[k][2] <= walk.ranges[l][1]
                       \/ walk.ranges[l][2] <= walk.ranges[k][1]
        /\ CharsOf(walk.ranges) = CharsOf(inserted)
        /\ \A f \in Permutations(1 .. Len(inserted)) :
              InsertAll(clear, Permuted(inserted, f), 1) = ranges_

\* Three ranges inserted, a gap filled by the last one.
UnionWitness ==
    /\ pc = "ranges"
    /\ Len(inserted) = 3
    /\ inserted[1][2] < inserted[2][1]
    /\ inserted[3][1] < inserted[1][2]
    /\ inserted[2][1] < inserted[3][2]
    /\ Len(ranges_) >= 4

(***************************************************************************)
(* C7.  In SpecRanges: every range met by the walk is entirely inside or   *)
(* entirely outside each inserted range, and two ranges met one after the  *)
(* other differ in being inside at least one inserted range; [0,256),      *)
(* [0,32), [0,64) give [0,32), [32,64), [64,256).                          *)
(***************************************************************************)
Inside(a, r) == r[1] <= a[1] /\ a[2] <= r[2]
Apart(a, r) == a[2] <= r[1] \/ r[2] <= a[1]

CoarsestPartition ==
    LET met == DistinctRanges(ranges_).ranges
    IN  /\ \A k \in 1 .. Len(met) : \A n \in 1 .. Len(inserted) :
              Inside(met[k], inserted[n]) \/ Apart(met[k], inserted[n])
        /\ \A k \in 1 .. Len(met) - 1 :
              \E n \in 1 .. Len(inserted) :
                  Inside(met[k], inserted[n]) # Inside(met[k + 1], inserted[n])
        /\ DistinctRanges(InsertAll(clear, <<<<0, 256>>, <<0, 32>>, <<0, 64>>>>, 1)).ranges
              = <<<<0, 32>>, <<32, 64>>, <<64, 256>>>>

\* A range inserted inside an earlier one: the earlier one is met in pieces.
PartitionWitness ==
    /\ pc = "ranges"
    /\ Len(inserted) = 2
    /\ inserted[1][1] < inserted[2][1]
    /\ inserted[2][2] < inserted[1][2]
    /\ Len(DistinctRanges(ranges_).ranges) = 3

(***************************************************************************)
(* C8.  The transitions of every state are in ascending order of their     *)
(* lower bound and pairwise disjoint: each ends where or before the next   *)
(* one begins, so no character has two of them.                            *)
(***************************************************************************)
TransitionsSortedDisjoint ==
    \A s \in 1 .. Len(heap) :
        LET ts == heap[s].transitions
        IN  /\ \A k \in 1 .. Len(ts) : ts[k].begin < ts[k].end
            /\ \A k, l \in 1 .. Len(ts) : k < l => ts[k].end <= ts[l].begin

\* A processed state with three transitions.
TransitionsWitness ==
    \E s \in states_ : heap[s].processed /\ Len(heap[s].transitions) >= 3

(***************************************************************************)
(* C9.  For every state whose turn of the for loop has ended the           *)
(* characters its transitions hold are the characters the ranges of the    *)
(* non-End positions of its items hold.                                    *)
(***************************************************************************)
TransitionChars(s) ==
    {c \in 0 .. MaxChar :
        \E k \in 1 .. Len(heap[s].transitions) :
            heap[s].transitions[k].begin <= c /\ c < heap[s].transitions[k].end}

PositionChars(nodes, items) ==
    {c \in 0 .. MaxChar :
        \E p \in UNION items :
            /\ ~nodes[p].is_end
            /\ nodes[p].begin_character <= c
            /\ c < nodes[p].end_character}

TransitionsCoverPositions ==
    \A list \in Lists : \A s \in SetOf(list) :
        heap[s].processed /\ ~(pc = "walk" /\ i = s) =>
            /\ pc # "undefined"
            /\ TransitionChars(s) = PositionChars(parsers[list].nodes, heap[s].items)

\* A processed state with positions of overlapping ranges, an End position
\* and three transitions.
CoverWitness ==
    \E s \in states_ :
        /\ heap[s].processed
        /\ Len(heap[s].transitions) = 3
        /\ EndNodes(parsers["states"].nodes, heap[s].items) # {}
        /\ \E p, q \in UNION heap[s].items :
              LET a == parsers["states"].nodes[p]
                  b == parsers["states"].nodes[q]
              IN  /\ p # q /\ ~a.is_end /\ ~b.is_end
                  /\ a.begin_character < b.end_character
                  /\ b.begin_character < a.end_character

(***************************************************************************)
(* C10.  At the end of the constructor the states of states_ have the      *)
(* indices 0 .. n-1 and the states of whitespace_states_ the indices       *)
(* n .. n+m-1, n and m the sizes of the two sets.                          *)
(***************************************************************************)
IndicesOf(set) == {heap[s].index : s \in set}

IndicesContiguous ==
    pc = "done" =>
        LET n == Cardinality(states_)
            m == Cardinality(whitespace_states_)
        IN  /\ IndicesOf(states_) = 0 .. n - 1
            /\ IndicesOf(whitespace_states_) = n .. n + m - 1
            /\ \A s, t \in states_ \cup whitespace_states_ :
                  s # t => heap[s].index # heap[t].index

\* The constructor has ended with several states in each of the two sets.
IndicesWitness ==
    /\ pc = "done"
    /\ Cardinality(states_) >= 3
    /\ Cardinality(whitespace_states_) >= 2

(***************************************************************************)
(* C11.  In SpecActions, after any sequence of add_lexer_action calls:     *)
(* actions_ holds exactly one action for each distinct non-empty           *)
(* identifier given; every call with an identifier given before returns    *)
(* the action the first call with it returned and leaves actions_ as it    *)
(* was; and the index of the action returned is the number of distinct     *)
(* identifiers given before that first call, so the action at the place p  *)
(* of actions_ (counted from 0) has the index p.                           *)
(***************************************************************************)
Named(k) == {calls[j].identifier : j \in 1 .. k} \ {""}

FirstCall(k) ==
    CHOOSE j \in 1 .. k :
        /\ calls[j].identifier = calls[k].identifier
        /\ \A l \in 1 .. j - 1 : calls[l].identifier # calls[k].identifier

ActionsInterned ==
    /\ {actions_[p].identifier : p \in 1 .. Len(actions_)} = Named(Len(calls))
    /\ \A p, q \in 1 .. Len(actions_) :
          p # q => actions_[p].identifier # actions_[q].identifier
    /\ \A p \in 1 .. Len(actions_) : actions_[p].index = p - 1
    /\ \A k \in 1 .. Len(calls) :
          calls[k].identifier # "" =>
              LET first == FirstCall(k)
                  action == calls[k].action
              IN  /\ action # NULL
                  /\ action = calls[first].action
                  /\ actions_[action].identifier = calls[k].identifier
                  /\ actions_[action].index = Cardinality(Named(first - 1))
                  /\ first < k => calls[k].actions = calls[k - 1].actions

\* Two identifiers registered, then the first one asked for again and the
\* second one after it.
ActionsWitness ==
    /\ pc = "actions"
    /\ Len(calls) = 4
    /\ calls[1].identifier # ""
    /\ calls[2].identifier \notin {"", calls[1].identifier}
    /\ calls[3].identifier = calls[1].identifier
    /\ calls[4].identifier = calls[2].identifier
    /\ Len(actions_) = 2

(***************************************************************************)
(* C13.  The two sets of states share no state and every transition of a   *)
(* state leads to a state of the set the state is in; and from the return  *)
(* of the first generate_states call on, no step changes states_,          *)
(* start_state_ or any field (items, transitions, symbol, processed,       *)
(* index) of a state of states_: the second generate_indices_for_states    *)
(* call writes to the states of states_ the indices they have.             *)
(***************************************************************************)
SetsApart ==
    /\ states_ \cap whitespace_states_ = {}
    /\ \A list \in Lists : \A s \in SetOf(list) :
          \A k \in 1 .. Len(heap[s].transitions) :
              heap[s].transitions[k].state \in SetOf(list)

MainKept ==
    Generated("states") =>
        /\ states_' = states_
        /\ start_state_' = start_state_
        /\ \A s \in states_ : heap'[s] = heap[s]

WhitespaceLeavesMain == []SetsApart /\ [][MainKept]_vars

\* The constructor has ended with two automata of several states, the main
\* one with an accepting state that has transitions.
WhitespaceWitness ==
    /\ pc = "done"
    /\ whitespace_states_ \ {whitespace_start_state_} # {}
    /\ \E s \in states_ \ {start_state_} :
          /\ heap[s].symbol # NULL
          /\ Len(heap[s].transitions) >= 1
          /\ heap[s].index > 0

(***************************************************************************)
(* C14.  In SpecSymbol: the symbol the state got and whether a conflict    *)
(* was reported are what generate_symbol_for_state gives for the same      *)
(* tokens in every other order, in which the walk meets their End          *)
(* positions in that other order.                                          *)
(***************************************************************************)
SymbolInOrder(f) ==
    LET toks == [k \in 1 .. Len(tokens) |-> tokens[f[k]]]
        parser == RegexParser(toks)
    IN  generate_symbol_for_state("states", toks, parser.nodes, 1,
                                  goto_(parser.nodes, {parser.first_positions}, 0, 1),
                                  <<>>, event_sink_)

SymbolInAnyOrder ==
    pc = "symbol_done" =>
        \A f \in Permutations(1 .. Len(tokens)) :
            /\ SymbolInOrder(f).symbol = heap[1].symbol
            /\ (SymbolInOrder(f).log = <<>>) <=> (sink = <<>>)

(***************************************************************************)
(* C15.  In SpecRanges, after clear() and after each insert(): the markers *)
(* of ranges_ are in strictly ascending order of their character, and a    *)
(* character is in one of the ranges inserted since clear() exactly when   *)
(* there is a marker at or below it and the greatest such marker is 'in'.  *)
(***************************************************************************)
MarkersBelow(x) == {k \in 1 .. Len(ranges_) : ranges_[k].first <= x}

MarkersEncodeUnion ==
    /\ \A k \in 1 .. Len(ranges_) - 1 : ranges_[k].first < ranges_[k + 1].first
    /\ \A x \in 0 .. MaxChar :
          x \in CharsOf(inserted) <=>
              /\ MarkersBelow(x) # {}
              /\ ranges_[CHOOSE k \in MarkersBelow(x) :
                            \A l \in MarkersBelow(x) : l <= k].second

\* Two ranges inserted, the second one beginning inside the first and ending
\* beyond it.
MarkersWitness ==
    /\ pc = "ranges"
    /\ Len(inserted) = 2
    /\ inserted[1][1] < inserted[2][1]
    /\ inserted[2][1] < inserted[1][2]
    /\ inserted[1][2] < inserted[2][2]
    /\ Len(ranges_) = 4

(***************************************************************************)
(* C16.  At every step of the constructor: no two states of a set have the *)
(* same items, and every transition of a state of a set leads to a state   *)
(* of that set, the one that holds the goto items of the range of the      *)
(* transition.                                                             *)
(***************************************************************************)
StatesInterned ==
    \A list \in Lists :
        /\ \A s, t \in SetOf(list) : s # t => heap[s].items # heap[t].items
        /\ \A s \in SetOf(list) : \A k \in 1 .. Len(heap[s].transitions) :
              LET t == heap[s].transitions[k]
              IN  /\ t.state \in SetOf(list)
                  /\ heap[t.state].items =
                        goto_(parsers[list].nodes, heap[s].items, t.begin, t.end)

\* A state with a transition to itself or to a state made before it: the
\* goto state was in the set already.
InternedWitness ==
    /\ pc = "for"
    /\ Cardinality(states_) >= 3
    /\ \E s \in states_ : \E k \in 1 .. Len(heap[s].transitions) :
          /\ heap[s].transitions[k].state <= s
          /\ Len(heap[s].transitions) >= 2

(***************************************************************************)
(* C17.  The closure loop of generate_states terminates: while it runs the *)
(* constructor has a step to take and every step that stays in the loop    *)
(* lowers Measure, a natural number; and from the exit of the loop of a    *)
(* list on, every state of the set of the list is processed, those         *)
(* interned before the place of the iterator too.                          *)
(***************************************************************************)
LoopLeft(list) == Generated(list) \/ (pc = "indices" /\ generating = list)

AllProcessed ==
    \A list \in Lists :
        LoopLeft(list) => \A s \in SetOf(list) : heap[s].processed

InLoop == pc \in {"for", "walk"}

\* The number of sets of positions there are: no more states can be made.
ItemSets == 2 ^ Len(parsers[generating].nodes)

\* The states at and after the iterator in the order of the set.
Ahead ==
    IF i = NULL THEN {}
    ELSE {t \in SetOf(generating) :
            t = i \/ LexerStateLess(heap[i].items, heap[t].items)}

\* In order of weight: the states that can still be processed, the walk of
\* the state just marked, a pass still owed for states added, the states the
\* pass has yet to meet.
Measure ==
    LET unprocessed == ItemSets
                       - Cardinality({s \in SetOf(generating) : heap[s].processed})
        walk == IF pc = "walk" THEN 1 ELSE 0
        owed == IF added > 0 THEN 1 ELSE 0
    IN  ((unprocessed * 2 + walk) * 2 + owed) * (ItemSets + 1) + Cardinality(Ahead)

LoopRuns == InLoop => CanStep /\ Measure >= 0 /\ Cardinality(Ahead) <= ItemSets

LoopDescends == InLoop /\ InLoop' => Measure' < Measure

LoopTerminates == [](LoopRuns /\ AllProcessed) /\ [][LoopDescends]_vars

\* A state that is not processed stands in the set before the state the
\* iterator is at: the pass will not meet it.
BehindIteratorWitness ==
    /\ pc = "for"
    /\ i # NULL
    /\ \E t \in SetOf(generating) :
          /\ ~heap[t].processed
          /\ LexerStateLess(heap[t].items, heap[i].items)

(***************************************************************************)
(* C18.  Stated as in the claim: no step changes the items or the          *)
(* transitions of a state whose processed flag is set.                     *)
(***************************************************************************)
KeptOnceProcessed ==
    \A s \in 1 .. Len(heap) :
        heap[s].processed =>
            /\ heap'[s].items = heap[s].items
            /\ heap'[s].transitions = heap[s].transitions

ProcessedIsFinal == [][KeptOnceProcessed]_vars

(***************************************************************************)
(* C18 as amended: the items of a state never change and its processed     *)
(* flag stays set; its symbol is not written once the flag is set; its     *)
(* transitions are added in the turn of the for loop that set the flag,    *)
(* after the flag was set, and do not change once that turn has ended.     *)
(***************************************************************************)
KeptOnceTurnEnded ==
    \A s \in 1 .. Len(heap) :
        /\ heap'[s].items = heap[s].items
        /\ heap[s].processed =>
              /\ heap'[s].processed
              /\ heap'[s].symbol = heap[s].symbol
              /\ ~(pc = "walk" /\ i = s) =>
                    heap'[s].transitions = heap[s].transitions

ProcessedIsFinalAfterTurn == [][KeptOnceTurnEnded]_vars

\* The flag of a state is set, its ranges are in ranges_ and its transitions
\* are yet to be added; other states are processed already.
ProcessedWitness ==
    /\ pc = "walk"
    /\ heap[i].processed
    /\ heap[i].transitions = <<>>
    /\ Len(DistinctRanges(ranges_).ranges) >= 2
    /\ \E s \in states_ \ {i} : heap[s].processed /\ heap[s].transitions # <<>>

(***************************************************************************)
(* C19.  In SpecRanges: when ranges_ is not empty its first marker is      *)
(* 'in', its last marker is 'out' and no two markers that follow one       *)
(* another are 'out'; and the walk of generate_states over ranges_ reads   *)
(* no marker past the end and its assertions hold: begin < end for every   *)
(* range, and after an 'out' marker that is skipped comes an 'in' marker   *)
(* or the end.                                                             *)
(***************************************************************************)
WalkStaysInside ==
    /\ ranges_ # <<>> =>
          /\ ranges_[1].second
          /\ ~ranges_[Len(ranges_)].second
          /\ \A k \in 1 .. Len(ranges_) - 1 :
                ranges_[k].second \/ ranges_[k + 1].second
    /\ ~DistinctRanges(ranges_).overrun
    /\ DistinctRanges(ranges_).asserts

\* Two ranges with a gap between them: the walk skips the 'out' marker that
\* begins the gap and ends at the 'out' marker that is last.
WalkWitness ==
    /\ pc = "ranges"
    /\ Len(inserted) = 2
    /\ inserted[2][2] < inserted[1][1]
    /\ Len(ranges_) = 4
    /\ ~ranges_[2].second
    /\ Len(DistinctRanges(ranges_).ranges) = 2

=============================================================================
